---- MODULE Spec2Model ----
(***************************************************************************)
(* Model of scripts/generate_feedback.py: the checkpointed meta-feedback   *)
(* pipeline (get_head, get_last_processed, git_diff, detect_content_status,*)
(* call_gpt with fallback, write_feedback, set_last_processed, main).      *)
(*                                                                         *)
(* Texts are modelled by what the code does with them:                     *)
(*   - the output of a shell command is a Text [src, len]: the first len   *)
(*     characters of the named source text (len = 0 is the empty string);  *)
(*   - a source document is a sequence of lexical segments [kind, len];    *)
(*   - a Markdown document (the artifact) is a sequence of lines           *)
(*     [ind, body]: ind leading spaces, then the pieces in body.           *)
(* The labels base[:7] / head[:7] of the prompt are not modelled.          *)
(***************************************************************************)
EXTENDS Integers, Sequences, FiniteSets, TLC

VARIABLES
    repo_head,    \* the revision HEAD of the checked-out repository
    STATE_FILE,   \* content of .meta-feedback/state.json
    CODE_FILE,    \* algorithm.py
    PSEUDO_FILE,  \* PSEUDOCODE.md
    TEST_DIR,     \* TRUE iff tests/ exists and holds a test_*.py
    clock,        \* UTC time in minutes (what now_stamp() reads)
    artifacts,    \* the Meta-Feedback_<minute>.md files: minute -> document
    proc,         \* per invocation of main(): program counter and locals
    settled,      \* ghost: an invocation ended Done and HEAD has not moved since
    probe         \* result of a direct call of the classifier functions

vars == <<repo_head, STATE_FILE, CODE_FILE, PSEUDO_FILE, TEST_DIR, clock,
          artifacts, proc, settled, probe>>

(* ------------------------------ bounds -------------------------------- *)
MaxRev == 2
MaxMinute == 1
MaxSegs == 2

Procs == {1, 2, 3}
Revs == 0 .. MaxRev

Min(S) == CHOOSE x \in S : \A y \in S : x <= y

(* ------------------------- repository history ------------------------- *)
\* The commit graph git answers from: revision 0 is the parentless root,
\* revision r > 0 has parent (r - 1) \div 2 (1 and 2 are siblings).
Parent(r) == (r - 1) \div 2

RECURSIVE RootOf(_)
RootOf(r) == IF r = 0 THEN 0 ELSE RootOf(Parent(r))

(* ----------------------- values held in state.json -------------------- *)
\* A JSON scalar / Python value: the sha of a revision, another string
\* (v = 0: the empty string, v = 1: a string git cannot resolve), or null.
Sha(r) == [t |-> "rev", v |-> r]
None == [t |-> "null", v |-> 0]
EmptyStr == [t |-> "str", v |-> 0]
BadStr == [t |-> "str", v |-> 1]

\* Python truthiness, as used by `get_last_processed() or get_initial_commit()`.
Truthy(x) ==
    CASE x.t = "null" -> FALSE
      [] x.t = "str" -> x.v # 0
      [] OTHER -> TRUE

\* git can resolve the value as a revision of the repository.
Resolvable(x) == x.t = "rev"

\* File contents of state.json.
Absent == [kind |-> "absent", has_lp |-> FALSE, lp |-> None]
Garbage == [kind |-> "garbage", has_lp |-> FALSE, lp |-> None]
NonDict == [kind |-> "nondict", has_lp |-> FALSE, lp |-> None]
EmptyDict == [kind |-> "dict", has_lp |-> FALSE, lp |-> None]
Record(x) == [kind |-> "dict", has_lp |-> TRUE, lp |-> x]

CorruptFiles == {Garbage, NonDict, EmptyDict, Record(None), Record(EmptyStr),
                 Record(BadStr)}

\* json.loads(text): raises on text that is not JSON.
json_loads(f) == [raised |-> f.kind = "garbage", obj |-> f]

\* obj.get("last_processed"): AttributeError when obj is no dict.
dict_get(obj) ==
    IF obj.kind # "dict" THEN [raised |-> TRUE, val |-> None]
    ELSE [raised |-> FALSE, val |-> IF obj.has_lp THEN obj.lp ELSE None]

\* Mutant: the stored value is never read.
get_last_processed_ignores_file(f) == [raised |-> FALSE, val |-> None]

get_last_processed(f) ==
    IF f.kind # "absent"
    THEN LET j == json_loads(f)
             g == dict_get(j.obj)
         IN IF j.raised \/ g.raised
            THEN [raised |-> FALSE, val |-> None]
            ELSE [raised |-> FALSE, val |-> g.val]
    ELSE [raised |-> FALSE, val |-> None]

set_last_processed(sha) == Record(sha)

get_initial_commit(h) == Sha(RootOf(h))

(* --------------------------- content heuristics ----------------------- *)
\* A source document is a sequence of lexical segments. For algorithm.py:
\* "code", "hash_comment", "dq_block" and "sq_block" (triple-quoted blocks),
\* "ws"; for PSEUDOCODE.md: "prose", "fence" (fenced code), "html_comment",
\* "markup" (one of the characters strip_md deletes), "ws".
Seg(k, n) == [kind |-> k, len |-> n]

RECURSIVE SumLen(_)
SumLen(text) == IF text = <<>> THEN 0 ELSE Head(text).len + SumLen(Tail(text))

IsPyCore(s) == s.kind \notin {"hash_comment", "dq_block", "sq_block", "ws"}
IsMdCore(s) == s.kind \notin {"fence", "html_comment", "markup", "ws"}

strip_comments_and_ws_py(text) == SelectSeq(text, IsPyCore)

strip_md(text) == SelectSeq(text, IsMdCore)

\* A file of the working tree: st is "ok", "missing" or "unreadable".
File(st, text) == [st |-> st, text |-> text]

\* p.read_text(encoding="utf-8"): raises on a missing or unreadable file.
read_text(p) == [raised |-> p.st # "ok",
                 text |-> IF p.st = "ok" THEN p.text ELSE <<>>]

\* Mutant: no try/except around read_text.
read_text_safe_unguarded(p) == read_text(p)

\* try: p.read_text(...) except Exception: ""
read_text_safe(p) ==
    LET r == read_text(p)
    IN IF r.raised THEN [raised |-> FALSE, text |-> <<>>] ELSE r

CodeThreshold == 80
PseudoThreshold == 120

\* Mutant: the threshold is exclusive.
has_meaningful_code_exclusive(code_core_len) == code_core_len > CodeThreshold

has_meaningful_code(code_core_len) == code_core_len >= CodeThreshold

has_meaningful_pseudo(pseudo_core_len) == pseudo_core_len >= PseudoThreshold

detect_content_status(code_file, pseudo_file, test_dir) ==
    LET code_read == read_text_safe(code_file)
        pseudo_read == read_text_safe(pseudo_file)
        code_text == code_read.text
        pseudo_text == pseudo_read.text
        code_core_len == IF code_text # <<>>
                         THEN SumLen(strip_comments_and_ws_py(code_text)) ELSE 0
        pseudo_core_len == IF pseudo_text # <<>>
                           THEN SumLen(strip_md(pseudo_text)) ELSE 0
    IN [raised |-> code_read.raised \/ pseudo_read.raised,
        code_len |-> code_core_len,
        pseudo_len |-> pseudo_core_len,
        has_code |-> has_meaningful_code(code_core_len),
        has_pseudo |-> has_meaningful_pseudo(pseudo_core_len),
        tests_exist |-> test_dir]

\* One sentence of the summary; n is the length it quotes (0 when none).
Note(k, n) == [note |-> k, n |-> n]
NoSubstantial == Note("No substantial code or pseudocode detected.", 0)
NoTests == Note("No test files found under 'tests/'.", 0)
Unclear == Note("Content status unclear.", 0)

\* Mutant: the note for "neither is meaningful" is left out.
describe_content_status_without_neither(status) ==
    LET details ==
            (IF status.has_code
             THEN <<Note("Detected non-trivial code in algorithm.py", status.code_len)>>
             ELSE <<>>)
         \o (IF status.has_pseudo
             THEN <<Note("Detected non-trivial pseudocode in PSEUDOCODE.md", status.pseudo_len)>>
             ELSE <<>>)
         \o (IF ~status.tests_exist THEN <<NoTests>> ELSE <<>>)
    IN IF details # <<>> THEN details ELSE <<Unclear>>

describe_content_status(status) ==
    LET details ==
            (IF status.has_code
             THEN <<Note("Detected non-trivial code in algorithm.py", status.code_len)>>
             ELSE <<>>)
         \o (IF status.has_pseudo
             THEN <<Note("Detected non-trivial pseudocode in PSEUDOCODE.md", status.pseudo_len)>>
             ELSE <<>>)
         \o (IF ~status.has_code /\ ~status.has_pseudo THEN <<NoSubstantial>> ELSE <<>>)
         \o (IF ~status.tests_exist THEN <<NoTests>> ELSE <<>>)
    IN IF details # <<>> THEN details ELSE <<Unclear>>

(* ------------------------------ shell calls --------------------------- *)
\* The first n characters of the text named src.
Text(src, n) == [src |-> src, len |-> n]
EmptyText == Text("", 0)
NoneText == Text("(none)", 6)

\* The outcome of one sh(cmd): ok with its stripped stdout, or a raised
\* CalledProcessError.
ShOk(out) == [ok |-> TRUE, out |-> out]
ShFail == [ok |-> FALSE, out |-> EmptyText]

EmptyDiff == [name_status |-> EmptyText, shortstat |-> EmptyText,
              patch |-> EmptyText, tree |-> EmptyText, logs |-> EmptyText]

\* Mutant: a failed diff command is replaced by the empty string, like the
\* tree listing and the log.
git_diff_lenient(base, head, env) ==
    LET differ == base # head
        get(k) == IF env[k].ok THEN env[k].out ELSE EmptyText
    IN [raised |-> FALSE,
        calls |-> (IF differ THEN {"name_status", "shortstat", "patch"} ELSE {})
                  \cup {"tree", "logs"},
        d |-> [name_status |-> IF differ THEN get("name_status") ELSE EmptyText,
               shortstat |-> IF differ THEN get("shortstat") ELSE EmptyText,
               patch |-> IF differ THEN get("patch") ELSE EmptyText,
               tree |-> get("tree"),
               logs |-> get("logs")]]

\* Mutant: the tree listing and the log are required like the diff commands
\* (no try/except around them).
git_diff_strict(base, head, env) ==
    LET differ == base # head
        cmds == <<"name_status", "shortstat", "patch", "tree", "logs">>
        failed == {i \in 1 .. 5 : ~env[cmds[i]].ok /\ (i <= 3 => differ)}
        first_failed == IF failed # {} THEN Min(failed) ELSE 0
    IN IF first_failed # 0
       THEN [raised |-> TRUE,
             calls |-> {cmds[i] : i \in {j \in 1 .. first_failed : j <= 3 => differ}},
             d |-> EmptyDiff]
       ELSE [raised |-> FALSE,
             calls |-> (IF differ THEN {"name_status", "shortstat", "patch"} ELSE {})
                       \cup {"tree", "logs"},
             d |-> [name_status |-> IF differ THEN env.name_status.out ELSE EmptyText,
                    shortstat |-> IF differ THEN env.shortstat.out ELSE EmptyText,
                    patch |-> IF differ THEN env.patch.out ELSE EmptyText,
                    tree |-> env.tree.out,
                    logs |-> env.logs.out]]

\* Mutant: the diff commands are invoked whether or not base equals head.
git_diff_unguarded(base, head, env) ==
    LET required == <<"name_status", "shortstat", "patch">>
        failed == {i \in 1 .. 3 : ~env[required[i]].ok}
        first_failed == IF failed # {} THEN Min(failed) ELSE 0
    IN IF first_failed # 0
       THEN [raised |-> TRUE,
             calls |-> {required[i] : i \in 1 .. first_failed},
             d |-> EmptyDiff]
       ELSE [raised |-> FALSE,
             calls |-> {"name_status", "shortstat", "patch", "tree", "logs"},
             d |-> [name_status |-> env.name_status.out,
                    shortstat |-> env.shortstat.out,
                    patch |-> env.patch.out,
                    tree |-> IF env.tree.ok THEN env.tree.out ELSE EmptyText,
                    logs |-> IF env.logs.ok THEN env.logs.out ELSE EmptyText]]

\* git_diff(base, head) against an environment env that holds the outcome of
\* each of the five commands. calls is the set of commands it invoked.
git_diff(base, head, env) ==
    LET differ == base # head
        required == <<"name_status", "shortstat", "patch">>
        failed == {i \in 1 .. 3 : ~env[required[i]].ok}
        first_failed == IF differ /\ failed # {} THEN Min(failed) ELSE 0
    IN IF first_failed # 0
       THEN [raised |-> TRUE,
             calls |-> {required[i] : i \in 1 .. first_failed},
             d |-> EmptyDiff]
       ELSE [raised |-> FALSE,
             calls |-> (IF differ THEN {"name_status", "shortstat", "patch"} ELSE {})
                       \cup {"tree", "logs"},
             d |-> [name_status |-> IF differ THEN env.name_status.out ELSE EmptyText,
                    shortstat |-> IF differ THEN env.shortstat.out ELSE EmptyText,
                    patch |-> IF differ THEN env.patch.out ELSE EmptyText,
                    tree |-> IF env.tree.ok THEN env.tree.out ELSE EmptyText,
                    logs |-> IF env.logs.ok THEN env.logs.out ELSE EmptyText]]

(* -------------------------------- prompt ------------------------------ *)
PatchBound == 20000

\* Mutant: a slice that marks the cut with a three-character ellipsis.
Take_WithMarker(text, k) ==
    IF text.len <= k THEN text ELSE [text EXCEPT !.len = k + 3]

\* text[:k]
Take(text, k) == IF text.len <= k THEN text ELSE [text EXCEPT !.len = k]

\* x or "(none)"
OrNone(text) == IF text.len # 0 THEN text ELSE NoneText

\* USER_PROMPT_TEMPLATE.format(...): the fields in the template's order.
user_prompt_of(d, content_summary) ==
    [logs |-> OrNone(d.logs),
     tree |-> OrNone(d.tree),
     name_status |-> OrNone(d.name_status),
     patch |-> IF d.patch.len # 0 THEN Take(d.patch, PatchBound) ELSE NoneText,
     content_summary |-> content_summary]

(* ------------------------- the fallback document ---------------------- *)
Line(ind, body) == [ind |-> ind, body |-> body]
IsBlank(l) == l.body = <<>>

\* Leading spaces of the lines of the f-string in main's except branch.
TemplateIndent == 12

\* textwrap.dedent: whitespace-only lines become empty, and the common
\* leading whitespace of the other lines is removed from each of them.
dedent(lines) ==
    LET nonblank == {i \in DOMAIN lines : ~IsBlank(lines[i])}
        margin == IF nonblank = {} THEN 0 ELSE Min({lines[i].ind : i \in nonblank})
    IN [i \in DOMAIN lines |->
          IF IsBlank(lines[i]) THEN Line(0, <<>>)
          ELSE Line(lines[i].ind - margin, lines[i].body)]

ErrorPrefix == "The feedback service encountered an error: "
RetryLine == "Please retry the instructor-triggered workflow."

\* The f-string with str(e) interpolated: e is the message's lines, the
\* first of which continues the template's second line.
fallback_template(e) ==
    <<Line(TemplateIndent, <<"# Meta-Feedback (Process-Oriented)">>),
      Line(TemplateIndent, <<ErrorPrefix>> \o e[1].body)>>
    \o Tail(e)
    \o <<Line(TemplateIndent, <<RetryLine>>),
         Line(TemplateIndent, <<>>)>>

fallback_md(e) == dedent(fallback_template(e))

\* The outcome of call_gpt: the stripped completion, or a raised exception
\* whose message is err.
GptOk(text) == [ok |-> TRUE, text |-> text, err |-> <<>>]
GptFail(e) == [ok |-> FALSE, text |-> <<>>, err |-> e]

\* try: call_gpt(...) except Exception as e: the fallback document
feedback_md_of(r) == IF r.ok THEN r.text ELSE fallback_md(r.err)

\* Mutant: an existing artifact of the same minute is kept, not replaced.
write_feedback_keeps_first(files, now, md) ==
    [m \in DOMAIN files \cup {now} |-> IF m \in DOMAIN files THEN files[m] ELSE md]

\* write_feedback(md) at minute now: Meta-Feedback_<now>.md is (over)written.
write_feedback(files, now, md) ==
    [m \in DOMAIN files \cup {now} |-> IF m = now THEN md ELSE files[m]]

(* ------------------------- inputs of the model ------------------------ *)
SeqsUpTo(S, n) == UNION {[1 .. k -> S] : k \in 0 .. n}

PySegs == {Seg("code", n) : n \in {1, 79}}
          \cup {Seg(k, 3) : k \in {"hash_comment", "dq_block", "sq_block", "ws"}}
MdSegs == {Seg("prose", n) : n \in {1, 119}}
          \cup {Seg(k, 3) : k \in {"fence", "html_comment", "markup", "ws"}}

PyFiles == {File("missing", <<>>),
            File("unreadable", <<Seg("code", 79), Seg("code", 1)>>)}
           \cup {File("ok", t) : t \in SeqsUpTo(PySegs, MaxSegs)}
MdFiles == {File("missing", <<>>),
            File("unreadable", <<Seg("prose", 119), Seg("prose", 1)>>)}
           \cup {File("ok", t) : t \in SeqsUpTo(MdSegs, MaxSegs)}

\* The working trees the orchestrator is run on: an empty submission, and
\* one with substantial code and tests.
Snapshots ==
    {<<File("missing", <<>>), File("missing", <<>>), FALSE>>,
     <<File("ok", <<Seg("code", 79), Seg("hash_comment", 3), Seg("code", 1)>>),
       File("ok", <<Seg("prose", 119)>>), TRUE>>}

\* Lengths of a non-empty unified diff: short, and longer than PatchBound.
PatchLens == {7, 20500}

\* Completions and exception messages of the generation service. A message
\* may continue on a second line, at column 0 or indented.
GenTexts == {<<Line(0, <<"Signals Observed">>)>>}
ErrMsgs == {<<Line(0, <<"timeout">>)>>,
            <<Line(0, <<"boom">>), Line(0, <<"detail">>)>>,
            <<Line(0, <<"boom">>), Line(14, <<"detail">>)>>}
GptOutcomes == {GptOk(t) : t \in GenTexts} \cup {GptFail(e) : e \in ErrMsgs}

(* ------------------------------ invocations --------------------------- *)
NoPrompt == user_prompt_of(EmptyDiff, <<>>)

\* An invocation that has not started. sf_before, arts_before, after_settled
\* are ghosts: the state the invocation started from.
IdleProc ==
    [pc |-> "idle", head |-> None, last |-> None, d |-> EmptyDiff, calls |-> {},
     user_prompt |-> NoPrompt, gpt |-> GptOk(<<>>), feedback_md |-> <<>>,
     out |-> -1, stdout |-> <<>>, abort_at |-> "",
     sf_before |-> Absent, arts_before |-> <<>>, after_settled |-> FALSE]

Quiet == \A q \in Procs : proc[q].pc = "idle"

Abort(p, where) ==
    proc' = [proc EXCEPT ![p].pc = "aborted", ![p].abort_at = where]

\* main, line 243: head = get_head()
GetHead(p) ==
    /\ proc[p].pc = "idle"
    /\ \/ proc' = [proc EXCEPT ![p] =
                     [IdleProc EXCEPT !.pc = "get_last_processed",
                                      !.head = Sha(repo_head),
                                      !.sf_before = STATE_FILE,
                                      !.arts_before = artifacts,
                                      !.after_settled = settled]]
       \/ proc' = [proc EXCEPT ![p] =
                     [IdleProc EXCEPT !.pc = "aborted", !.abort_at = "get_head",
                                      !.sf_before = STATE_FILE,
                                      !.arts_before = artifacts,
                                      !.after_settled = settled]]
    /\ UNCHANGED <<repo_head, STATE_FILE, CODE_FILE, PSEUDO_FILE, TEST_DIR,
                   clock, artifacts, settled, probe>>

\* Mutant: no short circuit when last equals head.
Resolved_NoShortCircuit(p, last) ==
    /\ proc' = [proc EXCEPT ![p].pc = "git_diff", ![p].last = last]
    /\ UNCHANGED settled

\* main, lines 244-248: last = get_last_processed() or get_initial_commit(),
\* and the no-op short circuit.
Resolved(p, last) ==
    IF last = proc[p].head
    THEN /\ proc' = [proc EXCEPT ![p].pc = "done", ![p].last = last,
                                 ![p].stdout = <<"No new commits to process.">>]
         /\ settled' = TRUE
    ELSE /\ proc' = [proc EXCEPT ![p].pc = "git_diff", ![p].last = last]
         /\ UNCHANGED settled

GetLastProcessed(p) ==
    /\ proc[p].pc = "get_last_processed"
    /\ LET stored == get_last_processed(STATE_FILE).val
       IN IF Truthy(stored)
          THEN Resolved(p, stored)
          ELSE \/ Resolved(p, get_initial_commit(repo_head))
               \/ Abort(p, "get_initial_commit") /\ UNCHANGED settled
    /\ UNCHANGED <<repo_head, STATE_FILE, CODE_FILE, PSEUDO_FILE, TEST_DIR,
                   clock, artifacts, probe>>

\* The outcomes of the five commands of git_diff. git diff between two
\* revisions with the same tree prints nothing; it fails on a base that
\* names no revision.
ShEnvs(base) ==
    {[name_status |-> IF f[1] THEN ShFail
                      ELSE ShOk(Text("name_status", IF same THEN 0 ELSE 4)),
      shortstat |-> IF f[2] THEN ShFail
                    ELSE ShOk(Text("shortstat", IF same THEN 0 ELSE 5)),
      patch |-> IF f[3] THEN ShFail
                ELSE ShOk(Text("patch", IF same THEN 0 ELSE n)),
      tree |-> IF f[4] THEN ShFail ELSE ShOk(Text("tree", 9)),
      logs |-> IF f[5] THEN ShFail ELSE ShOk(Text("logs", 8))] :
        f \in {g \in [1 .. 5 -> BOOLEAN] : ~Resolvable(base) => g[1] /\ g[2] /\ g[3]},
        same \in BOOLEAN, n \in PatchLens}

\* main, line 251: d = git_diff(last, head)
GitDiff(p) ==
    /\ proc[p].pc = "git_diff"
    /\ \E env \in ShEnvs(proc[p].last) :
         LET r == git_diff(proc[p].last, proc[p].head, env)
         IN IF r.raised
            THEN proc' = [proc EXCEPT ![p].pc = "aborted", ![p].abort_at = "git_diff",
                                      ![p].calls = r.calls]
            ELSE proc' = [proc EXCEPT ![p].pc = "classify", ![p].d = r.d,
                                      ![p].calls = r.calls]
    /\ UNCHANGED <<repo_head, STATE_FILE, CODE_FILE, PSEUDO_FILE, TEST_DIR,
                   clock, artifacts, settled, probe>>

\* main, lines 254-266: classify the snapshot and build the prompt
Classify(p) ==
    /\ proc[p].pc = "classify"
    /\ LET status == detect_content_status(CODE_FILE, PSEUDO_FILE, TEST_DIR)
           content_summary == describe_content_status(status)
       IN IF status.raised
          THEN Abort(p, "detect_content_status")
          ELSE proc' = [proc EXCEPT ![p].pc = "call_gpt",
                          ![p].user_prompt = user_prompt_of(proc[p].d, content_summary)]
    /\ UNCHANGED <<repo_head, STATE_FILE, CODE_FILE, PSEUDO_FILE, TEST_DIR,
                   clock, artifacts, settled, probe>>

\* Mutant: no try/except around call_gpt.
CallGpt_Propagates(p) ==
    /\ proc[p].pc = "call_gpt"
    /\ \E r \in GptOutcomes :
         IF r.ok
         THEN proc' = [proc EXCEPT ![p].pc = "write_feedback", ![p].gpt = r,
                                   ![p].feedback_md = r.text]
         ELSE proc' = [proc EXCEPT ![p].pc = "aborted", ![p].gpt = r,
                                   ![p].abort_at = "call_gpt"]
    /\ UNCHANGED <<repo_head, STATE_FILE, CODE_FILE, PSEUDO_FILE, TEST_DIR,
                   clock, artifacts, settled, probe>>

\* main, lines 269-278: call_gpt, or the fallback document
CallGpt(p) ==
    /\ proc[p].pc = "call_gpt"
    /\ \E r \in GptOutcomes :
         proc' = [proc EXCEPT ![p].pc = "write_feedback", ![p].gpt = r,
                              ![p].feedback_md = feedback_md_of(r)]
    /\ UNCHANGED <<repo_head, STATE_FILE, CODE_FILE, PSEUDO_FILE, TEST_DIR,
                   clock, artifacts, settled, probe>>

\* Mutant: the checkpoint is stored before the artifact is written.
WriteFeedback_CheckpointFirst(p) ==
    /\ proc[p].pc = "write_feedback"
    /\ STATE_FILE' = set_last_processed(proc[p].head)
    /\ proc' = [proc EXCEPT ![p].pc = "set_last_processed"]
    /\ UNCHANGED <<repo_head, CODE_FILE, PSEUDO_FILE, TEST_DIR, clock,
                   artifacts, settled, probe>>

\* main, line 280: out = write_feedback(feedback_md)
WriteFeedback(p) ==
    /\ proc[p].pc = "write_feedback"
    /\ artifacts' = write_feedback(artifacts, clock, proc[p].feedback_md)
    /\ proc' = [proc EXCEPT ![p].pc = "set_last_processed", ![p].out = clock]
    /\ UNCHANGED <<repo_head, STATE_FILE, CODE_FILE, PSEUDO_FILE, TEST_DIR,
                   clock, settled, probe>>

\* Mutant: the checkpoint advances only when generation succeeded.
SetLastProcessed_OnlyOnSuccess(p) ==
    /\ proc[p].pc = "set_last_processed"
    /\ STATE_FILE' = IF proc[p].gpt.ok THEN set_last_processed(proc[p].head)
                     ELSE STATE_FILE
    /\ proc' = [proc EXCEPT ![p].pc = "done", ![p].stdout = <<"Wrote">>]
    /\ settled' = TRUE
    /\ UNCHANGED <<repo_head, CODE_FILE, PSEUDO_FILE, TEST_DIR, clock,
                   artifacts, probe>>

\* Mutant: the base of the range is stored instead of head.
SetLastProcessed_StoresBase(p) ==
    /\ proc[p].pc = "set_last_processed"
    /\ STATE_FILE' = set_last_processed(proc[p].last)
    /\ proc' = [proc EXCEPT ![p].pc = "done", ![p].stdout = <<"Wrote">>]
    /\ settled' = TRUE
    /\ UNCHANGED <<repo_head, CODE_FILE, PSEUDO_FILE, TEST_DIR, clock,
                   artifacts, probe>>

\* Mutant: a retry loop around the checkpoint write, which may run again
\* after it has written.
SetLastProcessed_Retry(p) ==
    /\ proc[p].pc = "set_last_processed"
    /\ STATE_FILE' = set_last_processed(proc[p].head)
    /\ \/ proc' = [proc EXCEPT ![p].pc = "done", ![p].stdout = <<"Wrote">>]
       \/ proc' = [proc EXCEPT ![p].stdout = <<"Retrying">>]
    /\ settled' = TRUE
    /\ UNCHANGED <<repo_head, CODE_FILE, PSEUDO_FILE, TEST_DIR, clock,
                   artifacts, probe>>

\* main, lines 281-282: set_last_processed(head); print(f"Wrote {out}")
SetLastProcessed(p) ==
    /\ proc[p].pc = "set_last_processed"
    /\ STATE_FILE' = set_last_processed(proc[p].head)
    /\ proc' = [proc EXCEPT ![p].pc = "done", ![p].stdout = <<"Wrote">>]
    /\ settled' = TRUE
    /\ UNCHANGED <<repo_head, CODE_FILE, PSEUDO_FILE, TEST_DIR, clock,
                   artifacts, probe>>

\* write_feedback raises: FEEDBACK_DIR cannot be created or the file cannot
\* be opened, and nothing is written.
WriteFeedbackFails(p) ==
    /\ proc[p].pc = "write_feedback"
    /\ Abort(p, "write_feedback")
    /\ UNCHANGED <<repo_head, STATE_FILE, CODE_FILE, PSEUDO_FILE, TEST_DIR,
                   clock, artifacts, settled, probe>>

\* set_last_processed, line 57, first half: Path.write_text opens state.json
\* for writing, which truncates it to an empty file (not a JSON document).
OpenStateFile(p) ==
    /\ proc[p].pc = "set_last_processed"
    /\ STATE_FILE' = Garbage
    /\ proc' = [proc EXCEPT ![p].pc = "state_file_open"]
    /\ settled' = FALSE
    /\ UNCHANGED <<repo_head, CODE_FILE, PSEUDO_FILE, TEST_DIR, clock,
                   artifacts, probe>>

\* set_last_processed, line 57, second half: the JSON text is written and
\* the file closed; then main's line 282 prints.
WriteStateFile(p) ==
    /\ proc[p].pc = "state_file_open"
    /\ STATE_FILE' = set_last_processed(proc[p].head)
    /\ proc' = [proc EXCEPT ![p].pc = "done", ![p].stdout = <<"Wrote">>]
    /\ settled' = TRUE
    /\ UNCHANGED <<repo_head, CODE_FILE, PSEUDO_FILE, TEST_DIR, clock,
                   artifacts, probe>>

\* The process is killed (a cancelled job, a signal, a power loss) before
\* its next step; abort_at records the step it had not yet taken.
Interrupt(p) ==
    /\ proc[p].pc \in {"get_last_processed", "git_diff", "classify", "call_gpt",
                       "write_feedback", "set_last_processed", "state_file_open"}
    /\ proc' = [proc EXCEPT ![p].pc = "interrupted", ![p].abort_at = proc[p].pc]
    /\ UNCHANGED <<repo_head, STATE_FILE, CODE_FILE, PSEUDO_FILE, TEST_DIR,
                   clock, artifacts, settled, probe>>

\* The process ends: exit status 0 after "done", non-zero (an uncaught
\* exception) after "aborted"; a killed process is gone.
Exit(p) ==
    /\ proc[p].pc \in {"done", "aborted", "interrupted"}
    /\ proc' = [proc EXCEPT ![p] = IdleProc]
    /\ UNCHANGED <<repo_head, STATE_FILE, CODE_FILE, PSEUDO_FILE, TEST_DIR,
                   clock, artifacts, settled, probe>>

\* main() is started: one invocation at a time (the design's assumption).
Start(p) == Quiet /\ GetHead(p)

\* Mutant: a single-flight guard, main() starts only when no other
\* invocation is running.
StartAnytime_SingleFlight(p) == Start(p)

\* main() is started by a trigger whatever other invocations are doing: the
\* script takes no lock before line 243.
StartAnytime(p) == GetHead(p)

\* A direct call of detect_content_status() on the working tree, and of
\* describe_content_status on its result.
DirectDetect ==
    /\ probe.stage = "none"
    /\ probe' = [stage |-> "detected",
                 status |-> detect_content_status(CODE_FILE, PSEUDO_FILE, TEST_DIR),
                 summary |-> <<>>]
    /\ UNCHANGED <<repo_head, STATE_FILE, CODE_FILE, PSEUDO_FILE, TEST_DIR,
                   clock, artifacts, proc, settled>>

DirectDescribe ==
    /\ probe.stage = "detected"
    /\ probe' = [probe EXCEPT !.stage = "described",
                              !.summary = describe_content_status(probe.status)]
    /\ UNCHANGED <<repo_head, STATE_FILE, CODE_FILE, PSEUDO_FILE, TEST_DIR,
                   clock, artifacts, proc, settled>>

\* A direct call of git_diff(base, head).
DirectGitDiff ==
    /\ probe.stage = "args"
    /\ probe' = [probe EXCEPT !.stage = "returned",
                              !.r = git_diff(probe.base, probe.head, probe.env)]
    /\ UNCHANGED <<repo_head, STATE_FILE, CODE_FILE, PSEUDO_FILE, TEST_DIR,
                   clock, artifacts, proc, settled>>

\* A direct evaluation of main's lines 258-266 on a collected diff.
DirectPrompt ==
    /\ probe.stage = "diffed"
    /\ probe' = [probe EXCEPT !.stage = "prompted",
                              !.prompt = user_prompt_of(probe.d, probe.summary)]
    /\ UNCHANGED <<repo_head, STATE_FILE, CODE_FILE, PSEUDO_FILE, TEST_DIR,
                   clock, artifacts, proc, settled>>

(* ------------------------------ environment --------------------------- *)
\* Between invocations HEAD moves to any other revision (a commit, a reset,
\* a checkout) and the working tree changes with it.
MoveHead ==
    /\ Quiet
    /\ \E r \in Revs \ {repo_head}, snap \in Snapshots :
         /\ repo_head' = r
         /\ CODE_FILE' = snap[1]
         /\ PSEUDO_FILE' = snap[2]
         /\ TEST_DIR' = snap[3]
    /\ settled' = FALSE
    /\ UNCHANGED <<STATE_FILE, clock, artifacts, proc, probe>>

\* HEAD moves while invocations are running: a push arrives, with a new
\* commit on top of HEAD.
MoveHeadAnytime ==
    /\ \E r \in Revs \ {0} : Parent(r) = repo_head /\ repo_head' = r
    /\ settled' = FALSE
    /\ UNCHANGED <<STATE_FILE, CODE_FILE, PSEUDO_FILE, TEST_DIR, clock,
                   artifacts, proc, probe>>

\* Between invocations state.json is damaged or deleted from outside.
DamageStateFile ==
    /\ Quiet
    /\ \E c \in (CorruptFiles \cup {Absent}) \ {STATE_FILE} : STATE_FILE' = c
    /\ settled' = FALSE
    /\ UNCHANGED <<repo_head, CODE_FILE, PSEUDO_FILE, TEST_DIR, clock,
                   artifacts, proc, probe>>

\* A minute passes.
Tick ==
    /\ Quiet
    /\ clock < MaxMinute
    /\ clock' = clock + 1
    /\ UNCHANGED <<repo_head, STATE_FILE, CODE_FILE, PSEUDO_FILE, TEST_DIR,
                   artifacts, proc, settled, probe>>

(* --------------------------- specifications --------------------------- *)
NoProbe == [stage |-> "none",
            status |-> detect_content_status(File("missing", <<>>),
                                             File("missing", <<>>), FALSE),
            summary |-> <<>>]

Init ==
    /\ repo_head \in Revs
    /\ STATE_FILE = Absent
    /\ \E snap \in Snapshots :
         /\ CODE_FILE = snap[1]
         /\ PSEUDO_FILE = snap[2]
         /\ TEST_DIR = snap[3]
    /\ clock = 0
    /\ artifacts = <<>>
    /\ proc = [p \in Procs |-> IdleProc]
    /\ settled = FALSE
    /\ probe = NoProbe

\* Successive invocations of main(), one at a time: a single invocation
\* slot serves them all.
Sequential == {1}

Next ==
    \/ \E p \in Sequential : Start(p)
    \/ \E p \in Sequential : GetLastProcessed(p)
    \/ \E p \in Sequential : GitDiff(p)
    \/ \E p \in Sequential : Classify(p)
    \/ \E p \in Sequential : CallGpt(p)
    \/ \E p \in Sequential : WriteFeedback(p)
    \/ \E p \in Sequential : SetLastProcessed(p)
    \/ \E p \in Sequential : Exit(p)
    \/ MoveHead
    \/ DamageStateFile
    \/ Tick

Spec == Init /\ [][Next]_vars

\* The classifier called directly on every working tree within the bounds.
InitClassify ==
    /\ repo_head = 0
    /\ STATE_FILE = Absent
    /\ CODE_FILE \in PyFiles
    /\ PSEUDO_FILE \in MdFiles
    /\ TEST_DIR \in BOOLEAN
    /\ clock = 0
    /\ artifacts = <<>>
    /\ proc = [p \in Procs |-> IdleProc]
    /\ settled = FALSE
    /\ probe = NoProbe

NextClassify == DirectDetect \/ DirectDescribe

SpecClassify == InitClassify /\ [][NextClassify]_vars

\* Successive invocations on a HEAD that stays where it is, where local file
\* writes can fail and the process can be killed at any point;
\* set_last_processed is taken in the two steps of write_text.
InitCrash == Init

NextCrash ==
    \/ \E p \in Sequential : Start(p)
    \/ \E p \in Sequential : GetLastProcessed(p)
    \/ \E p \in Sequential : GitDiff(p)
    \/ \E p \in Sequential : Classify(p)
    \/ \E p \in Sequential : CallGpt(p)
    \/ \E p \in Sequential : WriteFeedback(p)
    \/ \E p \in Sequential : WriteFeedbackFails(p)
    \/ \E p \in Sequential : OpenStateFile(p)
    \/ \E p \in Sequential : WriteStateFile(p)
    \/ \E p \in Sequential : Interrupt(p)
    \/ \E p \in Sequential : Exit(p)
    \/ Tick

SpecCrash == InitCrash /\ [][NextCrash]_vars

\* git_diff called directly on every pair of revisions, equal or not, under
\* every outcome of its five commands.
InitGitDiff ==
    /\ repo_head = 0
    /\ STATE_FILE = Absent
    /\ CODE_FILE = File("missing", <<>>)
    /\ PSEUDO_FILE = File("missing", <<>>)
    /\ TEST_DIR = FALSE
    /\ clock = 0
    /\ artifacts = <<>>
    /\ proc = [p \in Procs |-> IdleProc]
    /\ settled = FALSE
    /\ \E base \in {Sha(r) : r \in Revs}, head \in {Sha(r) : r \in Revs} :
         \E env \in ShEnvs(base) :
            probe = [stage |-> "args", base |-> base, head |-> head, env |-> env,
                     r |-> [raised |-> FALSE, calls |-> {}, d |-> EmptyDiff]]

NextGitDiff == DirectGitDiff

SpecGitDiff == InitGitDiff /\ [][NextGitDiff]_vars

\* Overlapping invocations of main(), each started once by its own trigger,
\* on a project where an earlier run may have stored a checkpoint. The
\* collaborators do not fail here: every command succeeds with the same
\* output and generation succeeds.
NominalDiff ==
    [name_status |-> Text("name_status", 4), shortstat |-> Text("shortstat", 5),
     patch |-> Text("patch", 7), tree |-> Text("tree", 9), logs |-> Text("logs", 8)]

Nominal(q) ==
    /\ q.pc # "aborted"
    /\ q.d \in {EmptyDiff, NominalDiff}
    /\ q.gpt.ok

InitConc ==
    /\ repo_head \in Revs
    /\ STATE_FILE \in {Absent} \cup {set_last_processed(Sha(r)) : r \in Revs}
    /\ CODE_FILE = File("missing", <<>>)
    /\ PSEUDO_FILE = File("missing", <<>>)
    /\ TEST_DIR = FALSE
    /\ clock = 0
    /\ artifacts = <<>>
    /\ proc = [p \in Procs |-> IdleProc]
    /\ settled = FALSE
    /\ probe = NoProbe

\* The invocations are interchangeable: they are numbered in the order in
\* which their triggers fire.
InOrder(p) == \A q \in Procs : q < p => proc[q].pc # "idle"

NextConc ==
    \/ \E p \in Procs : InOrder(p) /\ StartAnytime(p) /\ Nominal(proc'[p])
    \/ \E p \in Procs : GetLastProcessed(p) /\ Nominal(proc'[p])
    \/ \E p \in Procs : GitDiff(p) /\ Nominal(proc'[p])
    \/ \E p \in Procs : Classify(p) /\ Nominal(proc'[p])
    \/ \E p \in Procs : CallGpt(p) /\ Nominal(proc'[p])
    \/ \E p \in Procs : WriteFeedback(p)
    \/ \E p \in Procs : SetLastProcessed(p)
    \/ MoveHeadAnytime

SpecConc == InitConc /\ [][NextConc]_vars

\* Successive invocations while the generation service is down: every
\* call_gpt raises. state.json is left alone between invocations.
CallGptFailing(p) == CallGpt(p) /\ ~proc'[p].gpt.ok

InitStall == Init

NextStall ==
    \/ \E p \in Sequential : Start(p)
    \/ \E p \in Sequential : GetLastProcessed(p)
    \/ \E p \in Sequential : GitDiff(p)
    \/ \E p \in Sequential : Classify(p)
    \/ \E p \in Sequential : CallGptFailing(p)
    \/ \E p \in Sequential : WriteFeedback(p)
    \/ \E p \in Sequential : SetLastProcessed(p)
    \/ \E p \in Sequential : Exit(p)
    \/ MoveHead
    \/ Tick

SpecStall == InitStall /\ [][NextStall]_vars

\* describe_content_status called directly on every status dict, whether or
\* not detect_content_status can produce it.
InitDescribe ==
    /\ repo_head = 0
    /\ STATE_FILE = Absent
    /\ CODE_FILE = File("missing", <<>>)
    /\ PSEUDO_FILE = File("missing", <<>>)
    /\ TEST_DIR = FALSE
    /\ clock = 0
    /\ artifacts = <<>>
    /\ proc = [p \in Procs |-> IdleProc]
    /\ settled = FALSE
    /\ \E c \in {0, CodeThreshold - 1, CodeThreshold, CodeThreshold + 1},
          m \in {0, PseudoThreshold - 1, PseudoThreshold, PseudoThreshold + 1},
          hc \in BOOLEAN, hp \in BOOLEAN, te \in BOOLEAN :
         probe = [stage |-> "detected",
                  status |-> [raised |-> FALSE, code_len |-> c, pseudo_len |-> m,
                              has_code |-> hc, has_pseudo |-> hp, tests_exist |-> te],
                  summary |-> <<>>]

NextDescribe == DirectDescribe

SpecDescribe == InitDescribe /\ [][NextDescribe]_vars

\* Diffs around the truncation bound: the patch is empty, short, one short of
\* the bound, at the bound, one over, and 500 over; the other fields are
\* empty or not.
PromptDiffs ==
    {[name_status |-> Text("name_status", a), shortstat |-> Text("shortstat", a),
      patch |-> Text("patch", n), tree |-> Text("tree", t), logs |-> Text("logs", l)] :
        a \in {0, 4}, t \in {0, 9}, l \in {0, 8},
        n \in {0, 1, 7, PatchBound - 1, PatchBound, PatchBound + 1, PatchBound + 500}}

\* The request composed directly from every diff of PromptDiffs.
InitPrompt ==
    /\ repo_head = 0
    /\ STATE_FILE = Absent
    /\ CODE_FILE = File("missing", <<>>)
    /\ PSEUDO_FILE = File("missing", <<>>)
    /\ TEST_DIR = FALSE
    /\ clock = 0
    /\ artifacts = <<>>
    /\ proc = [p \in Procs |-> IdleProc]
    /\ settled = FALSE
    /\ \E d \in PromptDiffs, s \in {<<NoSubstantial, NoTests>>, <<NoSubstantial>>} :
         probe = [stage |-> "diffed", d |-> d, summary |-> s, prompt |-> NoPrompt]

NextPrompt == DirectPrompt

SpecPrompt == InitPrompt /\ [][NextPrompt]_vars

(* ------------------------------- claims ------------------------------- *)
\* Revision a is b or an ancestor of b.
RECURSIVE IsAncestorOrEqual(_, _)
IsAncestorOrEqual(a, b) ==
    IF a = b THEN TRUE
    ELSE IF b = 0 THEN FALSE
    ELSE IsAncestorOrEqual(a, Parent(b))

\* The invocation has resolved `last` (it is past main's line 244).
ResolvedLast(q) ==
    \/ q.pc \in {"git_diff", "classify", "call_gpt", "write_feedback",
                 "set_last_processed", "done"}
    \/ q.pc = "aborted" /\ q.abort_at \in {"git_diff", "detect_content_status", "call_gpt"}

\* The invocation has passed git_diff.
Collected(q) ==
    \/ q.pc \in {"classify", "call_gpt", "write_feedback", "set_last_processed"}
    \/ q.pc = "done" /\ q.out # -1

\* The stored last_processed, or the root revision when there is none.
EffectiveCheckpoint(f, head) ==
    IF f.kind = "dict" /\ f.has_lp /\ f.lp \notin {None, EmptyStr}
    THEN f.lp
    ELSE Sha(RootOf(head.v))

\* C1: when the effective checkpoint equals the head resolved at the start,
\* the invocation goes straight to Done, calls no collector, writes no
\* artifact and leaves state.json as it was; and an invocation that follows
\* a Done invocation with nothing changed in between writes nothing and
\* leaves the checkpoint unchanged.
C1_NoOpIdempotence ==
    \A p \in Procs :
      LET q == proc[p]
      IN /\ (ResolvedLast(q) /\ EffectiveCheckpoint(q.sf_before, q.head) = q.head)
              => /\ q.pc = "done"
                 /\ q.out = -1
                 /\ q.calls = {}
                 /\ q.stdout = <<"No new commits to process.">>
                 /\ STATE_FILE = q.sf_before
                 /\ artifacts = q.arts_before
         /\ (q.pc # "idle" /\ q.after_settled)
              => /\ STATE_FILE = q.sf_before
                 /\ artifacts = q.arts_before
                 /\ q.out = -1
                 /\ q.pc \in {"get_last_processed", "done", "aborted"}
                 /\ q.pc = "aborted" => q.abort_at \in {"get_head", "get_initial_commit"}

\* C1 witness: a second invocation after one that persisted, ended as a no-op.
C1_Witness ==
    \E p \in Procs :
      /\ proc[p].pc = "done"
      /\ proc[p].after_settled
      /\ proc[p].out = -1
      /\ proc[p].sf_before = Record(proc[p].head)
      /\ artifacts # <<>>

\* C2: after an invocation that persisted its artifact and ended, state.json
\* holds the head that get_head() resolved at its start, generated or fallback.
C2_MonotonicCheckpoint ==
    \A p \in Procs :
      (proc[p].pc = "done" /\ proc[p].out # -1)
        => /\ proc[p].head.t = "rev"
           /\ STATE_FILE = Record(proc[p].head)
           /\ get_last_processed(STATE_FILE).val = proc[p].head

\* C2 witness: the fallback path ended with the checkpoint moved to head.
C2_Witness ==
    \E p \in Procs :
      /\ proc[p].pc = "done"
      /\ proc[p].out # -1
      /\ ~proc[p].gpt.ok
      /\ proc[p].sf_before # STATE_FILE
      /\ STATE_FILE = Record(proc[p].head)

\* C3 as stated: every change an invocation makes to a stored revision moves
\* it to a revision of which the previous value is an ancestor-or-equal.
C3_NeverRegresses ==
    [][LET old == get_last_processed(STATE_FILE).val
           new == get_last_processed(STATE_FILE').val
       IN (proc' # proc /\ old.t = "rev" /\ new # old)
            => (new.t = "rev" /\ IsAncestorOrEqual(old.v, new.v))]_vars

\* C3 amended: every change an invocation makes to state.json is the step
\* set_last_processed(head), and stores the head resolved at the start of
\* that invocation, which differs from the checkpoint the invocation read;
\* the previous value is an ancestor-or-equal of the new one exactly when it
\* is an ancestor-or-equal of that head.
C3_CheckpointFollowsHead ==
    [][(proc' # proc /\ STATE_FILE' # STATE_FILE)
         => \E p \in Procs :
              LET old == get_last_processed(STATE_FILE).val
                  new == get_last_processed(STATE_FILE').val
              IN /\ proc[p].pc = "set_last_processed"
                 /\ proc'[p].pc = "done"
                 /\ new = proc[p].head
                 /\ new # proc[p].last
                 /\ old.t = "rev" =>
                      /\ old = proc[p].last
                      /\ IsAncestorOrEqual(old.v, new.v)
                           <=> IsAncestorOrEqual(old.v, proc[p].head.v)]_vars

\* C3 witness: the checkpoint was moved from revision 1 back to its parent 0.
C3_Witness ==
    \E p \in Procs :
      /\ proc[p].pc = "done"
      /\ proc[p].sf_before = Record(Sha(1))
      /\ STATE_FILE = Record(Sha(0))

\* C4: an invocation aborted in git_diff has written no artifact, printed
\* nothing and left state.json as it found it; and an invocation that got
\* past git_diff holds the output of all three diff commands.
C4_DiffFailureAborts ==
    \A p \in Procs :
      LET q == proc[p]
      IN /\ (q.pc = "aborted" /\ q.abort_at = "git_diff")
              => /\ STATE_FILE = q.sf_before
                 /\ artifacts = q.arts_before
                 /\ q.out = -1
                 /\ q.stdout = <<>>
         /\ Collected(q)
              => /\ q.d.name_status.src = "name_status"
                 /\ q.d.shortstat.src = "shortstat"
                 /\ q.d.patch.src = "patch"

\* C4 witness: the third diff command failed, with a checkpoint stored and
\* an artifact of an earlier invocation on disk.
C4_Witness ==
    \E p \in Procs :
      /\ proc[p].pc = "aborted"
      /\ proc[p].abort_at = "git_diff"
      /\ proc[p].calls = {"name_status", "shortstat", "patch"}
      /\ proc[p].sf_before = Record(proc[p].last)
      /\ Resolvable(proc[p].last)
      /\ artifacts # <<>>

\* doc holds the lines of the message e as they are, after the error prefix.
ContainsVerbatim(doc, e) ==
    \E k \in DOMAIN doc :
      /\ doc[k].body = <<ErrorPrefix>> \o e[1].body
      /\ k + Len(e) - 1 <= Len(doc)
      /\ \A i \in 2 .. Len(e) : doc[k + i - 1] = e[i]

\* C5: a failure of call_gpt never aborts the invocation, and when the
\* invocation has ended the artifact it wrote holds the error message
\* verbatim and the retry instruction, and the checkpoint is head.
C5_FallbackOnGenerationFailure ==
    \A p \in Procs :
      LET q == proc[p]
      IN ~q.gpt.ok
           => /\ q.pc # "aborted"
              /\ q.pc = "done"
                   => /\ q.out \in DOMAIN artifacts
                      /\ ContainsVerbatim(artifacts[q.out], q.gpt.err)
                      /\ \E k \in DOMAIN artifacts[q.out] :
                           artifacts[q.out][k].body = <<RetryLine>>
                      /\ STATE_FILE = Record(q.head)

\* C6: get_last_processed never raises, and an invocation started on a
\* missing or corrupt state.json uses the root revision as its base and is
\* not aborted on account of the base.
C6_CorruptionRecovered ==
    \A p \in Procs :
      LET q == proc[p]
      IN /\ ~get_last_processed(q.sf_before).raised
         /\ (ResolvedLast(q) /\ q.sf_before \in CorruptFiles \cup {Absent})
              => /\ q.last = Sha(RootOf(q.head.v))
                 /\ Resolvable(q.last)

\* C7 as stated: no invocation ends with an error exit.
C7_AlwaysExitsZero == \A p \in Procs : proc[p].pc # "aborted"

\* C7 amended: an invocation ends with an error exit only when get_head,
\* get_initial_commit or one of the three diff commands failed, and then
\* prints nothing; an invocation that ends Done printed one status line; a
\* failure of call_gpt, of the tree listing or of the log never aborts.
C7_ExitStatus ==
    \A p \in Procs :
      LET q == proc[p]
      IN /\ q.pc = "aborted"
              => /\ q.abort_at \in {"get_head", "get_initial_commit", "git_diff"}
                 /\ q.calls \subseteq {"name_status", "shortstat", "patch"}
                 /\ q.stdout = <<>>
                 /\ q.out = -1
         /\ q.pc = "done" => Len(q.stdout) = 1
         /\ ~q.gpt.ok => q.pc \in {"write_feedback", "set_last_processed", "done"}

\* C7 witness: generation, the tree listing and the log all failed and the
\* invocation ended Done.
C7_Witness ==
    \E p \in Procs :
      /\ proc[p].pc = "done"
      /\ ~proc[p].gpt.ok
      /\ proc[p].d.tree = EmptyText
      /\ proc[p].d.logs = EmptyText
      /\ proc[p].stdout = <<"Wrote">>

\* The invocation runs on a project whose head is its root revision, with
\* no state.json.
SingleCommit(q) ==
    /\ ResolvedLast(q)
    /\ q.sf_before = Absent
    /\ q.head = Sha(0)

\* C8 as stated: on a single-commit project with no checkpoint the
\* invocation does not end as a no-op: when it ends Done it has written an
\* artifact and advanced the checkpoint.
C8_SingleCommitProceeds ==
    \A p \in Procs :
      (SingleCommit(proc[p]) /\ proc[p].pc = "done")
        => /\ proc[p].out # -1
           /\ STATE_FILE = Record(proc[p].head)

\* C8 amended: on a single-commit project with no checkpoint the effective
\* checkpoint is the root, which is head, so the invocation short-circuits:
\* it ends Done with the no-op status, calls no git_diff command, writes no
\* artifact and leaves state.json absent.
C8_SingleCommitShortCircuits ==
    \A p \in Procs :
      SingleCommit(proc[p])
        => /\ proc[p].pc = "done"
           /\ proc[p].last = proc[p].head
           /\ proc[p].calls = {}
           /\ proc[p].out = -1
           /\ proc[p].stdout = <<"No new commits to process.">>
           /\ artifacts = proc[p].arts_before
           /\ STATE_FILE = Absent

\* C8 witness: such an invocation has ended, on a project without artifacts.
C8_Witness ==
    \E p \in Procs :
      /\ SingleCommit(proc[p])
      /\ proc[p].pc = "done"
      /\ artifacts = <<>>

\* C9: has_code is true iff the stripped code length is at least 80 and
\* has_pseudo iff the stripped pseudocode length is at least 120.
C9_ClassificationBoundary ==
    probe.stage # "none"
      => /\ probe.status.has_code <=> probe.status.code_len >= 80
         /\ probe.status.has_pseudo <=> probe.status.pseudo_len >= 120
         /\ probe.status.code_len = 79 => ~probe.status.has_code
         /\ probe.status.code_len = 80 => probe.status.has_code
         /\ probe.status.pseudo_len = 119 => ~probe.status.has_pseudo
         /\ probe.status.pseudo_len = 120 => probe.status.has_pseudo

\* C9 witness: code of stripped length exactly 80 is meaningful and
\* pseudocode of stripped length 119 is not.
C9_Witness ==
    /\ probe.stage # "none"
    /\ probe.status.code_len = 80
    /\ probe.status.has_code
    /\ probe.status.pseudo_len = 119
    /\ ~probe.status.has_pseudo

\* C10: detect_content_status does not raise; a missing or unreadable
\* document has length 0 and is not meaningful; with both documents missing
\* or unreadable the summary holds the "No substantial ..." note.
C10_MissingArtifactTolerance ==
    probe.stage # "none"
      => /\ ~probe.status.raised
         /\ CODE_FILE.st # "ok"
              => (probe.status.code_len = 0 /\ ~probe.status.has_code)
         /\ PSEUDO_FILE.st # "ok"
              => (probe.status.pseudo_len = 0 /\ ~probe.status.has_pseudo)
         /\ (probe.stage = "described" /\ CODE_FILE.st # "ok" /\ PSEUDO_FILE.st # "ok")
              => \E i \in DOMAIN probe.summary : probe.summary[i] = NoSubstantial

\* C10 witness: the code document is missing, the pseudocode document is
\* unreadable, and the summary has been produced.
C10_Witness ==
    /\ probe.stage = "described"
    /\ CODE_FILE.st = "missing"
    /\ PSEUDO_FILE.st = "unreadable"
    /\ \E i \in DOMAIN probe.summary : probe.summary[i] = NoSubstantial

\* C11 (as stated): for every patch text, the patch field of the composed
\* request is the first min(len(patch), PatchBound) characters of the patch.
C11_TruncationEveryPatch ==
    probe.stage = "prompted" =>
        /\ probe.prompt.patch.src = probe.d.patch.src
        /\ probe.prompt.patch.len = Min({probe.d.patch.len, PatchBound})

\* C11 (amended): for every non-empty patch text, the patch field of the
\* composed request is the first min(len(patch), PatchBound) characters of
\* the patch, so a longer patch contributes exactly PatchBound characters and
\* nothing is appended; an empty patch is replaced by the six characters
\* "(none)".
C11_Truncation ==
    probe.stage = "prompted" =>
        IF probe.d.patch.len = 0
        THEN probe.prompt.patch = NoneText
        ELSE /\ probe.prompt.patch.src = probe.d.patch.src
             /\ probe.prompt.patch.len = Min({probe.d.patch.len, PatchBound})

\* A patch of PatchBound + 500 characters went into a request with exactly
\* PatchBound of them.
C11_Witness ==
    /\ probe.stage = "prompted"
    /\ probe.d.patch.len = PatchBound + 500
    /\ probe.prompt.patch = Text("patch", PatchBound)

\* C12: when an invocation is interrupted during set_last_processed, the
\* state file holds either the complete value it held before the invocation
\* or the complete new value, never a truncated, corrupt or absent record.
C12_NoPartialWrite ==
    \A p \in Procs :
        (/\ proc[p].pc = "interrupted"
         /\ proc[p].abort_at \in {"set_last_processed", "state_file_open"})
        => STATE_FILE \in {proc[p].sf_before, set_last_processed(proc[p].head)}

\* C13: a failure of the tree listing or of the recent log never aborts the
\* invocation: git_diff aborts only at one of the three diff commands,
\* before the optional ones are invoked; once it has returned, both optional
\* commands were invoked, each of their fields is the command's output or,
\* when it failed, the empty string, and the diff fields are the diff
\* commands' outputs.
C13_OptionalContextRecovered ==
    \A p \in Procs :
        LET q == proc[p]
        IN /\ (q.pc = "aborted" /\ q.abort_at = "git_diff")
               => /\ q.calls \subseteq {"name_status", "shortstat", "patch"}
                  /\ q.calls # {}
           /\ Collected(q)
               => /\ q.calls = {"name_status", "shortstat", "patch", "tree", "logs"}
                  /\ q.d.tree \in {EmptyText, Text("tree", 9)}
                  /\ q.d.logs \in {EmptyText, Text("logs", 8)}
                  /\ q.d.name_status.src = "name_status"
                  /\ q.d.shortstat.src = "shortstat"
                  /\ q.d.patch.src = "patch"

\* The tree listing failed and the log did not: the invocation went on to
\* write its artifact and to advance the checkpoint.
C13_Witness ==
    \E p \in Procs :
        /\ proc[p].pc = "done"
        /\ proc[p].out \in DOMAIN artifacts
        /\ proc[p].d.tree = EmptyText
        /\ proc[p].d.logs = Text("logs", 8)
        /\ proc[p].d.patch.len > 0
        /\ proc[p].user_prompt.tree = NoneText
        /\ artifacts[proc[p].out] = proc[p].feedback_md
        /\ STATE_FILE = set_last_processed(proc[p].head)

\* What git_diff does when base equals head: no diff command is invoked, so
\* none can abort it; the three diff fields are empty; the tree listing and
\* the log are invoked and collected.
C14_EqualCase ==
    probe.base = probe.head =>
        /\ ~probe.r.raised
        /\ probe.r.calls = {"tree", "logs"}
        /\ probe.r.d.name_status = EmptyText
        /\ probe.r.d.shortstat = EmptyText
        /\ probe.r.d.patch = EmptyText
        /\ probe.r.d.tree = (IF probe.env.tree.ok THEN probe.env.tree.out ELSE EmptyText)
        /\ probe.r.d.logs = (IF probe.env.logs.ok THEN probe.env.logs.out ELSE EmptyText)

\* C14 (as stated): with base equal to head git_diff returns empty diff
\* fields without invoking a diff command and still collects tree and log;
\* with base different from head all three diff commands are invoked.
C14_AllThreeInvoked ==
    probe.stage = "returned" =>
        /\ C14_EqualCase
        /\ probe.base # probe.head
            => {"name_status", "shortstat", "patch"} \subseteq probe.r.calls

\* C14 (amended): as stated for base equal to head; with base different from
\* head the diff commands are invoked in the order name-status, shortstat,
\* patch up to and including the first that fails, where git_diff raises:
\* all three exactly when the first two succeed.
C14_DiffCallsInOrder ==
    probe.stage = "returned" =>
        /\ C14_EqualCase
        /\ probe.base # probe.head
            => /\ "name_status" \in probe.r.calls
               /\ "shortstat" \in probe.r.calls <=> probe.env.name_status.ok
               /\ "patch" \in probe.r.calls
                    <=> (probe.env.name_status.ok /\ probe.env.shortstat.ok)
               /\ probe.r.raised
                    <=> ~(probe.env.name_status.ok /\ probe.env.shortstat.ok
                          /\ probe.env.patch.ok)

\* git_diff was called with base equal to head while every diff command
\* would have failed, and returned.
C14_Witness ==
    /\ probe.stage = "returned"
    /\ probe.base = probe.head
    /\ ~probe.env.name_status.ok /\ ~probe.env.shortstat.ok /\ ~probe.env.patch.ok
    /\ probe.env.tree.ok
    /\ ~probe.r.raised
    /\ probe.r.d.patch = EmptyText
    /\ probe.r.d.tree = Text("tree", 9)

\* The invocation wrote its artifact and its checkpoint.
Persisted(q) == q.pc = "done" /\ q.out # -1

\* C15: the design has no mutual exclusion: an invocation that has not
\* started can start whatever the others are doing, and an invocation that
\* has written its artifact can store its head whatever checkpoint is stored
\* by then; both the double processing of one range and the loss of a newer
\* checkpoint are reached (C15_Witness).
C15_NoMutualExclusion ==
    \A p \in Procs :
        /\ proc[p].pc = "idle" => ENABLED StartAnytime(p)
        /\ proc[p].pc = "set_last_processed" => ENABLED SetLastProcessed(p)

\* Both bad states at once, each between two invocations. a and b read the
\* same checkpoint, resolved the same head, both passed the test and both
\* wrote an artifact for that range; c resolved a newer head and wrote its
\* artifact and checkpoint, and the stored checkpoint is a's older head.
C15_Witness ==
    \E a, b, c \in Procs :
        /\ a # b /\ a # c /\ b # c
        /\ Persisted(proc[a]) /\ Persisted(proc[b]) /\ Persisted(proc[c])
        /\ proc[a].sf_before = proc[b].sf_before
        /\ proc[a].last = proc[b].last
        /\ proc[a].head = proc[b].head
        /\ proc[a].last # proc[a].head
        /\ proc[c].head # proc[a].head
        /\ IsAncestorOrEqual(proc[a].head.v, proc[c].head.v)
        /\ STATE_FILE = set_last_processed(proc[a].head)

\* C16: the artifact is named by the minute of the clock, so an invocation
\* that has passed write_feedback has written exactly one artifact: the file
\* of that minute holds its document, every other file is as it was when the
\* invocation started, and when a file of that minute existed already it was
\* replaced, the number of files staying the same. An invocation that has
\* not reached write_feedback has written none.
C16_OneArtifactPerMinute ==
    \A p \in Procs :
        LET q == proc[p]
        IN IF q.out # -1
           THEN /\ q.out = clock
                /\ DOMAIN artifacts = DOMAIN q.arts_before \cup {q.out}
                /\ artifacts[q.out] = q.feedback_md
                /\ \A m \in DOMAIN q.arts_before \ {q.out} :
                      artifacts[m] = q.arts_before[m]
                /\ q.out \in DOMAIN q.arts_before
                     => Cardinality(DOMAIN artifacts) = Cardinality(DOMAIN q.arts_before)
           ELSE q.pc # "idle" => artifacts = q.arts_before

\* A second invocation persisted in the minute of an earlier one: the file
\* count did not grow and the earlier, different feedback is gone.
C16_Witness ==
    \E p \in Procs :
        /\ proc[p].pc = "done"
        /\ proc[p].out \in DOMAIN proc[p].arts_before
        /\ proc[p].arts_before[proc[p].out] # proc[p].feedback_md
        /\ artifacts[proc[p].out] = proc[p].feedback_md
        /\ Cardinality(DOMAIN artifacts) = Cardinality(DOMAIN proc[p].arts_before)
        /\ \A m \in DOMAIN artifacts : artifacts[m] # proc[p].arts_before[proc[p].out]

\* The invocation has compared the checkpoint it read from a readable
\* state file with its head.
Compared(q) ==
    /\ q.pc \notin {"idle", "get_last_processed"}
    /\ ~(q.pc = "aborted" /\ q.abort_at \in {"get_head", "get_initial_commit"})

\* C17: while generation keeps failing, an invocation whose introspection
\* succeeds still ends with the checkpoint at its head, stored exactly as a
\* successful run stores it; an invocation that then finds the checkpoint at
\* its head is a no-op (the failed range is not retried), and one that finds
\* it at another revision takes that revision as the base of its range.
C17_FailedGenerationAdvances ==
    \A p \in Procs :
        LET q == proc[p]
        IN /\ Persisted(q)
               => ~q.gpt.ok /\ STATE_FILE = set_last_processed(q.head)
           /\ (Compared(q) /\ q.sf_before = set_last_processed(q.head))
               => /\ q.pc = "done"
                  /\ q.stdout = <<"No new commits to process.">>
                  /\ q.out = -1
                  /\ artifacts = q.arts_before
                  /\ STATE_FILE = q.sf_before
           /\ (Compared(q) /\ q.sf_before.kind = "dict"
                /\ q.sf_before # set_last_processed(q.head))
               => /\ q.last = q.sf_before.lp
                  /\ q.pc = "done" => Persisted(q)

\* After a run whose generation failed stored its head (its fallback
\* document is among the artifacts), HEAD moved on and a further run
\* processed the range from that stored head to the new one.
C17_Witness ==
    \E p \in Procs :
        /\ Persisted(proc[p])
        /\ proc[p].sf_before.kind = "dict"
        /\ proc[p].last = proc[p].sf_before.lp
        /\ proc[p].last # proc[p].head
        /\ \E m \in DOMAIN proc[p].arts_before, e \in ErrMsgs :
             proc[p].arts_before[m] = fallback_md(e)
        /\ STATE_FILE = set_last_processed(proc[p].head)

\* The position of a step of main in its straight-line order.
PcRank(pc) ==
    CASE pc = "idle" -> 0
      [] pc = "get_last_processed" -> 1
      [] pc = "git_diff" -> 2
      [] pc = "classify" -> 3
      [] pc = "call_gpt" -> 4
      [] pc = "write_feedback" -> 5
      [] pc = "set_last_processed" -> 6
      [] OTHER -> 7

\* C18: within one invocation the checkpoint is written at most once. Every
\* step of an invocation moves it strictly forward in main's order (no loop,
\* no retry) until it ends; the only step that writes state.json is the one
\* from set_last_processed to Done, taken after the artifact was written
\* and with nothing else changing; an invocation that ended on the no-op
\* path or aborted has left state.json as it found it.
C18_CheckpointWrittenOnce ==
    [][\A p \in Procs :
         proc'[p] # proc[p] =>
           /\ \/ PcRank(proc'[p].pc) > PcRank(proc[p].pc)
              \/ proc[p].pc \in {"done", "aborted"} /\ proc'[p] = IdleProc
           /\ (\/ STATE_FILE' # STATE_FILE
               \/ proc[p].pc = "set_last_processed"
               \/ proc'[p].pc = "done" /\ proc'[p].out # -1)
               => /\ proc[p].pc = "set_last_processed"
                  /\ proc'[p].pc = "done"
                  /\ proc[p].out \in DOMAIN artifacts
                  /\ artifacts[proc[p].out] = proc[p].feedback_md
                  /\ artifacts' = artifacts
                  /\ STATE_FILE' = set_last_processed(proc[p].head)
                  /\ STATE_FILE' # STATE_FILE
           /\ (proc'[p].pc = "aborted" \/ (proc'[p].pc = "done" /\ proc'[p].out = -1))
               => STATE_FILE' = proc'[p].sf_before]_vars

\* An invocation reached Done through persistence: its artifact is written
\* and state.json, which it changed, holds its head; it printed the path.
C18_Witness ==
    \E p \in Procs :
        /\ Persisted(proc[p])
        /\ proc[p].stdout = <<"Wrote">>
        /\ artifacts[proc[p].out] = proc[p].feedback_md
        /\ proc[p].sf_before # STATE_FILE
        /\ STATE_FILE = set_last_processed(proc[p].head)

\* The invocation, possibly ended by a failure or a kill, had resolved the
\* base of its range.
HadResolvedLast(q) ==
    \/ ResolvedLast(q)
    \/ q.pc = "state_file_open"
    \/ q.pc = "aborted" /\ q.abort_at = "write_feedback"
    \/ q.pc = "interrupted" /\ q.abort_at # "get_last_processed"

\* C19: the artifact write precedes the checkpoint advance. Whenever
\* state.json differs from what an invocation found, that invocation has
\* written its artifact; when write_feedback raised, or the invocation was
\* killed before write_feedback or between it and set_last_processed,
\* state.json is as the invocation found it; and an invocation that finds
\* artifacts but no state.json (earlier invocations on this HEAD wrote
\* theirs and never stored a checkpoint) takes the same range again, from
\* the root revision to HEAD, instead of the no-op.
C19_ArtifactBeforeCheckpoint ==
    \A p \in Procs :
        LET q == proc[p]
        IN /\ (q.pc # "idle" /\ STATE_FILE # q.sf_before)
               => /\ q.out \in DOMAIN artifacts
                  /\ artifacts[q.out] = q.feedback_md
           /\ (\/ q.pc = "aborted" /\ q.abort_at = "write_feedback"
               \/ q.pc = "interrupted"
                    /\ q.abort_at \in {"write_feedback", "set_last_processed"})
               => STATE_FILE = q.sf_before
           /\ (HadResolvedLast(q) /\ q.sf_before = Absent /\ q.arts_before # <<>>)
               => /\ q.head = Sha(repo_head)
                  /\ q.last = get_initial_commit(repo_head)
                  /\ q.last # q.head
                  /\ q.pc = "done" => q.out # -1

\* At-least-once: an invocation killed between write_feedback and
\* set_last_processed left its artifact and no checkpoint; a later
\* invocation on the same HEAD processed the range again and wrote a second
\* artifact, in another minute.
C19_Witness ==
    \E p \in Procs :
        /\ Persisted(proc[p])
        /\ proc[p].sf_before = Absent
        /\ proc[p].arts_before # <<>>
        /\ proc[p].out \notin DOMAIN proc[p].arts_before
        /\ Cardinality(DOMAIN artifacts) = Cardinality(DOMAIN proc[p].arts_before) + 1
        /\ STATE_FILE = set_last_processed(proc[p].head)

\* The place of a note in the fixed order code, pseudocode, neither,
\* no-tests; the "unclear" sentence comes last.
NoteRank(n) ==
    CASE n.note = "Detected non-trivial code in algorithm.py" -> 1
      [] n.note = "Detected non-trivial pseudocode in PSEUDOCODE.md" -> 2
      [] n = NoSubstantial -> 3
      [] n = NoTests -> 4
      [] OTHER -> 5

\* C20: describe_content_status never returns the "unclear" sentence. For
\* every status at least one note applies: the "neither" note is present
\* exactly when has_code and has_pseudo are both false, the code note
\* exactly when has_code, the pseudocode note exactly when has_pseudo, the
\* no-tests note exactly when tests_exist is false; and the notes present
\* appear in the order code, pseudocode, neither, no-tests.
C20_NeverUnclear ==
    probe.stage = "described" =>
        LET st == probe.status
            ranks == {NoteRank(probe.summary[i]) : i \in DOMAIN probe.summary}
        IN /\ probe.summary # <<>>
           /\ \A i \in DOMAIN probe.summary : probe.summary[i] # Unclear
           /\ 1 \in ranks <=> st.has_code
           /\ 2 \in ranks <=> st.has_pseudo
           /\ 3 \in ranks <=> (~st.has_code /\ ~st.has_pseudo)
           /\ 4 \in ranks <=> ~st.tests_exist
           /\ 5 \notin ranks
           /\ 3 \notin ranks => (1 \in ranks \/ 2 \in ranks)
           /\ \A i \in DOMAIN probe.summary, j \in DOMAIN probe.summary :
                 i < j => NoteRank(probe.summary[i]) < NoteRank(probe.summary[j])

\* Neither document is meaningful and tests exist: the "neither" note is the
\* whole summary.
C20_Witness ==
    /\ probe.stage = "described"
    /\ ~probe.status.has_code /\ ~probe.status.has_pseudo
    /\ probe.status.tests_exist
    /\ probe.summary = <<NoSubstantial>>

====
